---- MODULE Spec2Model ----
(***************************************************************************)
(* A model of the btle HCI transport layer: the wire primitives of         *)
(* src/lib.rs and src/le/advertiser.rs, the BlueZ socket constructor and   *)
(* the device Manager of src/hci/socket.rs.                                *)
(*                                                                         *)
(* Three specifications share the module:                                  *)
(*   SpecPrim    one call of one pure function on a drawn input            *)
(*   SpecSocket  HCISocket::new_channel, one system call per step          *)
(*   SpecManager concurrent callers of Manager::device_up / device_down    *)
(***************************************************************************)
EXTENDS Integers, Sequences, FiniteSets, TLC

VARIABLES
    op, input, output,                  \* SpecPrim: function called, argument, result
    lock, poisoned, mpc, mreq, mret, inIoctl, devUp,      \* SpecManager
    spc, sreq, sfd, errno, openFds, boundAddr, filters, held, streams, sret, syslog  \* SpecSocket

primVars == <<op, input, output>>
mgrVars  == <<lock, poisoned, mpc, mreq, mret, inIoctl, devUp>>
sockVars == <<spc, sreq, sfd, errno, openFds, boundAddr, filters, held, streams, sret, syslog>>
vars     == <<primVars, mgrVars, sockVars>>

(***************************************************************************)
(* Result, Option and panic values.                                        *)
(***************************************************************************)
Ok(v)    == [tag |-> "Ok", val |-> v]
Err(e)   == [tag |-> "Err", val |-> e]
Some(v)  == [tag |-> "Some", val |-> v]
None     == [tag |-> "None", val |-> <<>>]
Panic    == [tag |-> "Panic", val |-> <<>>]
Unit     == <<>>

ConversionError == "ConversionError"

(***************************************************************************)
(* Machine integers.                                                       *)
(***************************************************************************)
U8_MAX  == 255
U16_MAX == 65535
I8_MIN  == -128
I8_MAX  == 127

U8  == 0..U8_MAX
U16 == 0..U16_MAX
I8  == I8_MIN..I8_MAX

RECURSIVE Pow2(_)
Pow2(n) == IF n = 0 THEN 1 ELSE 2 * Pow2(n - 1)

\* a & b on w-bit unsigned values
RECURSIVE BitAnd(_, _, _)
BitAnd(a, b, w) ==
    IF w = 0 THEN 0
    ELSE (a % 2) * (b % 2) + 2 * BitAnd(a \div 2, b \div 2, w - 1)

\* a >> n on unsigned values
Shr(a, n) == a \div Pow2(n)

\* `value as i8` for a u8
U8AsI8(value) == IF value > I8_MAX THEN value - (U8_MAX + 1) ELSE value

\* dst[lo..hi].copy_from_slice(src), Rust half-open range lo..hi
copy_from_slice(dst, lo, hi, src) ==
    [i \in 1..Len(dst) |-> IF i > lo /\ i <= hi THEN src[i - lo] ELSE dst[i]]

(***************************************************************************)
(* src/lib.rs: PackError                                                   *)
(***************************************************************************)
BadLength(expected, got) == [kind |-> "BadLength", expected |-> expected, got |-> got]

expect_length(expected, buf) ==
    IF Len(buf) = expected THEN Ok(Unit) ELSE Err(BadLength(expected, Len(buf)))

atleast_length(expected, buf) ==
    IF Len(buf) = expected THEN Ok(Unit) ELSE Err(BadLength(expected, Len(buf)))

(***************************************************************************)
(* src/lib.rs: RSSI                                                        *)
(***************************************************************************)
MIN_RSSI_I8 == -127
MAX_RSSI_I8 == 20
UNSUPPORTED_RSSI == 127

RSSI(dbm) == [f0 |-> dbm]

maybe_rssiOffByOne(val) ==
    IF val >= -127 /\ val < 20 THEN Ok(Some(RSSI(val)))
    ELSE IF val = 127 THEN Ok(None)
    ELSE Err(ConversionError)

maybe_rssi(val) ==
    IF val >= -127 /\ val <= 20 THEN Ok(Some(RSSI(val)))
    ELSE IF val = 127 THEN Ok(None)
    ELSE Err(ConversionError)

RSSI_try_from_i8(value) ==
    IF value > MAX_RSSI_I8 \/ value < MIN_RSSI_I8
    THEN Err(ConversionError)
    ELSE Ok(RSSI(value))

RSSI_try_from_u8(value) == RSSI_try_from_i8(U8AsI8(value))

RSSI_into_i8(rssi) == rssi.f0

\* rssi.0 as u8
RSSI_into_u8(rssi) == IF rssi.f0 < 0 THEN rssi.f0 + (U8_MAX + 1) ELSE rssi.f0

(***************************************************************************)
(* src/lib.rs: BTAddress.  An address is a sequence of 6 bytes; the Rust   *)
(* index k is the TLA+ index k + 1.                                        *)
(***************************************************************************)
BT_ADDRESS_LEN == 6

u32_from_le_bytes(b) == b[1] + 256 * b[2] + 65536 * b[3] + 16777216 * b[4]

address_typeFirstByte(a) ==
    LET address_type_bits == Shr(BitAnd(a[1], 192, 8), 6)
    IN  CASE address_type_bits = 0 -> "NonResolvablePrivate"
          [] address_type_bits = 1 -> "ResolvablePrivateAddress"
          [] address_type_bits = 3 -> "StaticDevice"
          [] OTHER -> "RFU"

address_type(a) ==
    LET address_type_bits == Shr(BitAnd(a[(BT_ADDRESS_LEN - 1) + 1], 192, 8), 6)
    IN  CASE address_type_bits = 0 -> "NonResolvablePrivate"
          [] address_type_bits = 1 -> "ResolvablePrivateAddress"
          [] address_type_bits = 3 -> "StaticDevice"
          [] OTHER -> "RFU"

private_address_parts(a) ==
    IF address_type(a) = "ResolvablePrivateAddress"
    THEN Some(<<u32_from_le_bytes(<<a[1], a[2], a[3], 0>>),
                u32_from_le_bytes(<<a[4], a[5], a[6], 0>>)>>)
    ELSE None

(***************************************************************************)
(* src/lib.rs: BTAddress packing.  A u64 is four 16-bit words, the least   *)
(* significant first.                                                      *)
(***************************************************************************)
u64_from_le_bytes(b) == [k \in 1..4 |-> b[2 * k - 1] + 256 * b[2 * k]]

u64_to_le_bytes(u) ==
    [i \in 1..8 |-> IF i % 2 = 1 THEN u[(i + 1) \div 2] % 256 ELSE u[i \div 2] \div 256]

BTAddress_new(bytes) ==
    IF Len(bytes) = BT_ADDRESS_LEN THEN Ok(bytes) ELSE Panic

BTAddress_from_u64BigEndian(u) ==
    LET bytes == u64_to_le_bytes(u)
    IN  <<bytes[6], bytes[5], bytes[4], bytes[3], bytes[2], bytes[1]>>

BTAddress_from_u64(u) ==
    LET bytes == u64_to_le_bytes(u)
    IN  <<bytes[1], bytes[2], bytes[3], bytes[4], bytes[5], bytes[6]>>

BTAddress_to_u64(a) ==
    u64_from_le_bytes(<<a[1], a[2], a[3], a[4], a[5], a[6], 0, 0>>)

BTAddress_unpack_from(bytes) ==
    LET checked == expect_length(BT_ADDRESS_LEN, bytes)
    IN  IF checked.tag = "Err" THEN checked ELSE Ok(BTAddress_new(bytes).val)

\* the result, and the caller's buffer after the call
BTAddress_pack_into(a, bytes) ==
    LET checked == expect_length(BT_ADDRESS_LEN, bytes)
    IN  IF checked.tag = "Err"
        THEN [res |-> checked, bytes |-> bytes]
        ELSE [res |-> Ok(Unit), bytes |-> copy_from_slice(bytes, 0, Len(bytes), a)]

(***************************************************************************)
(* src/lib.rs: FromStr for BTAddress.  A text is a sequence of characters, *)
(* each a one-character string.                                            *)
(***************************************************************************)
\* char::to_digit(16): the digit's value, or -1 when the character is no hex digit
to_digit16(c) ==
    CASE c = "0" -> 0 [] c = "1" -> 1 [] c = "2" -> 2 [] c = "3" -> 3
      [] c = "4" -> 4 [] c = "5" -> 5 [] c = "6" -> 6 [] c = "7" -> 7
      [] c = "8" -> 8 [] c = "9" -> 9
      [] c \in {"a", "A"} -> 10 [] c \in {"b", "B"} -> 11 [] c \in {"c", "C"} -> 12
      [] c \in {"d", "D"} -> 13 [] c \in {"e", "E"} -> 14 [] c \in {"f", "F"} -> 15
      [] OTHER -> -1

\* the digit loop of u8::from_str_radix: InvalidDigit, or PosOverflow above u8::MAX
RECURSIVE ParseDigits(_, _)
ParseDigits(digits, acc) ==
    IF digits = <<>> THEN Ok(acc)
    ELSE LET d == to_digit16(Head(digits))
         IN  IF d < 0 THEN Err("InvalidDigit")
             ELSE IF acc * 16 + d > U8_MAX THEN Err("PosOverflow")
             ELSE ParseDigits(Tail(digits), acc * 16 + d)

\* u8::from_str_radix(byte, 16): Empty for "", InvalidDigit for a lone sign, one
\* leading '+' is skipped, and '-' is no sign of an unsigned type
u8_from_str_radix16(src) ==
    IF src = <<>> THEN Err("Empty")
    ELSE IF Len(src) = 1 /\ src[1] \in {"+", "-"} THEN Err("InvalidDigit")
    ELSE IF src[1] = "+" THEN ParseDigits(Tail(src), 0)
    ELSE ParseDigits(src, 0)

\* s.split(|c| c == ':' || c == '-'): cur is the piece being read
RECURSIVE SplitFrom(_, _, _)
SplitFrom(s, cur, done) ==
    IF s = <<>> THEN Append(done, cur)
    ELSE IF Head(s) = ":" \/ Head(s) = "-"
         THEN SplitFrom(Tail(s), <<>>, Append(done, cur))
         ELSE SplitFrom(Tail(s), Append(cur, Head(s)), done)

split(s) == SplitFrom(s, <<>>, <<>>)

\* out[nth] = v: an index outside the array panics
RECURSIVE from_str_loop(_, _, _)
from_str_loop(pieces, nth, out) ==
    IF pieces = <<>>
    THEN IF nth # 6 THEN Err(ConversionError) ELSE Ok(out)
    ELSE IF nth = 6 THEN Err(ConversionError)
    ELSE LET parsed == u8_from_str_radix16(Head(pieces))
         IN  IF parsed.tag = "Err" THEN Err(ConversionError)
             ELSE IF nth >= Len(out) THEN Panic
             ELSE from_str_loop(Tail(pieces), nth + 1,
                                [out EXCEPT ![nth + 1] = parsed.val])

BTAddress_from_str(s) ==
    from_str_loop(split(s), 0, [i \in 1..6 |-> 0])

(***************************************************************************)
(* src/le/advertiser.rs: AdvertisingInterval and ChannelMap                *)
(***************************************************************************)
MIN_U16 == 32
MAX_U16 == 16384

AdvertisingInterval(v) == [f0 |-> v]

AdvertisingInterval_new(interval) ==
    IF interval <= MAX_U16 /\ interval >= MIN_U16
    THEN Ok(AdvertisingInterval(interval))
    ELSE Panic

AdvertisingInterval_try_fromExclusiveMax(value) ==
    IF value < MAX_U16 /\ value >= MIN_U16
    THEN Ok(AdvertisingInterval(value))
    ELSE Err(ConversionError)

AdvertisingInterval_try_from(value) ==
    IF value <= MAX_U16 /\ value >= MIN_U16
    THEN Ok(AdvertisingInterval(value))
    ELSE Err(ConversionError)

AdvertisingInterval_into_u16(a) == a.f0

\* milli * 16 / 10 in u16.  A product above u16::MAX panics in a build with overflow
\* checks and wraps modulo 2^16 in a build without.
from_milliseconds(milli, overflow_checks) ==
    LET product == milli * 16
    IN  IF product > U16_MAX /\ overflow_checks THEN Panic
        ELSE LET converted ==
                     AdvertisingInterval_try_from((product % (U16_MAX + 1)) \div 10)
             IN  IF converted.tag = "Ok" THEN Some(converted.val) ELSE None

\* a core::time::Duration is [secs, nanos]
Duration_from_millis(millis) ==
    [secs |-> millis \div 1000, nanos |-> (millis % 1000) * 1000000]

Duration_as_millis(d) == d.secs * 1000 + d.nanos \div 1000000

\* TryFrom<Duration>: as_millis() must fit u16, then from_milliseconds, then ok_or
AdvertisingInterval_try_from_duration(value, overflow_checks) ==
    LET millis == Duration_as_millis(value)
    IN  IF millis > U16_MAX THEN Err(ConversionError)
        ELSE LET r == from_milliseconds(millis, overflow_checks)
             IN  CASE r.tag = "Panic" -> Panic
                   [] r.tag = "Some" -> Ok(r.val)
                   [] OTHER -> Err(ConversionError)

AdvertisingTypes ==
    {"AdvInd", "AdvDirectIndHighDutyCycle", "AdvScanInd", "AdvNonnConnInd",
     "AdvDirectIndLowDutyCycle"}

AdvertisingType_into_u8(a) ==
    CASE a = "AdvInd" -> 0
      [] a = "AdvDirectIndHighDutyCycle" -> 1
      [] a = "AdvScanInd" -> 2
      [] a = "AdvNonnConnInd" -> 3
      [] a = "AdvDirectIndLowDutyCycle" -> 4

AdvertisingType_try_from(value) ==
    CASE value = 0 -> Ok("AdvInd")
      [] value = 1 -> Ok("AdvDirectIndHighDutyCycle")
      [] value = 2 -> Ok("AdvScanInd")
      [] value = 3 -> Ok("AdvNonnConnInd")
      [] value = 4 -> Ok("AdvDirectIndLowDutyCycle")
      [] OTHER -> Err(ConversionError)

PeerAddressTypes == {"Public", "Random"}

PeerAddressType_into_u8(a) ==
    CASE a = "Public" -> 0
      [] a = "Random" -> 1

PeerAddressType_try_from(value) ==
    CASE value = 0 -> Ok("Public")
      [] value = 1 -> Ok("Random")
      [] OTHER -> Err(ConversionError)

OwnAddressTypes == {"PublicDevice", "RandomDevice", "PrivateOrPublic", "PrivateOrRandom"}

OwnAddressType_into_u8(t) ==
    CASE t = "PublicDevice" -> 0
      [] t = "RandomDevice" -> 1
      [] t = "PrivateOrPublic" -> 2
      [] t = "PrivateOrRandom" -> 3

OwnAddressType_try_fromDefaulting(value) ==
    CASE value = 1 -> Ok("RandomDevice")
      [] value = 2 -> Ok("PrivateOrPublic")
      [] value = 3 -> Ok("PrivateOrRandom")
      [] OTHER -> Ok("PublicDevice")

OwnAddressType_try_from(value) ==
    CASE value = 0 -> Ok("PublicDevice")
      [] value = 1 -> Ok("RandomDevice")
      [] value = 2 -> Ok("PrivateOrPublic")
      [] value = 3 -> Ok("PrivateOrRandom")
      [] OTHER -> Err(ConversionError)

FilterPolicies ==
    {"All", "ConnectionAllScanWhitelist", "ScanAllConnectionWhitelist", "Whitelist"}

FilterPolicy_into_u8(f) ==
    CASE f = "All" -> 0
      [] f = "ConnectionAllScanWhitelist" -> 1
      [] f = "ScanAllConnectionWhitelist" -> 2
      [] f = "Whitelist" -> 3

FilterPolicy_try_from(value) ==
    CASE value = 0 -> Ok("All")
      [] value = 1 -> Ok("ConnectionAllScanWhitelist")
      [] value = 2 -> Ok("ScanAllConnectionWhitelist")
      [] value = 3 -> Ok("Whitelist")
      [] OTHER -> Err(ConversionError)

ALL_U8 == 7

ChannelMap(map) == [f0 |-> map]

\* assert!(map > Self::ALL_U8, ...): the assertion fails, and the call panics,
\* when map > ALL_U8 is false.
ChannelMap_new(map) ==
    IF map > ALL_U8 THEN Ok(ChannelMap(map)) ELSE Panic

ChannelMap_try_from(value) ==
    IF value <= ALL_U8 THEN Ok(ChannelMap(value)) ELSE Err(ConversionError)

ChannelMap_into_u8(m) == m.f0

(***************************************************************************)
(* 32-bit unsigned values as bit vectors: bit k of x is x[k].              *)
(***************************************************************************)
Bits32 == 0..31

\* 1u32 << n, for a shift n below the width
Shl1(n) == [k \in Bits32 |-> IF k = n THEN 1 ELSE 0]

BitOr32(a, b) == [k \in Bits32 |-> IF a[k] = 1 \/ b[k] = 1 THEN 1 ELSE 0]

\* crate::bytes::ToFromBytesEndian::to_bytes_le for u32
to_bytes_le(x) ==
    [i \in 1..4 |->
        LET base == 8 * (i - 1)
        IN  x[base] + 2 * x[base + 1] + 4 * x[base + 2] + 8 * x[base + 3]
            + 16 * x[base + 4] + 32 * x[base + 5] + 64 * x[base + 6]
            + 128 * x[base + 7]]

to_bytes_be(x) == [i \in 1..4 |-> to_bytes_le(x)[5 - i]]

(***************************************************************************)
(* src/hci/socket.rs                                                       *)
(***************************************************************************)
AF_BLUETOOTH == 31
BTProtocol_HCI == 1
HCI_FILTER == 2
SOL_HCI == 0
FILTER_LEN == 14

\* numeric tags of crate::hci::stream::PacketType and crate::hci::EventCode
PacketType_Command == 1
PacketType_Event == 4
EventCode_CommandComplete == 0
EventCode_CommandStatus == 2

HCIChannels == {"Raw", "User", "Monitor", "Control", "Logging"}

HCIChannel_into_u16(channel) ==
    CASE channel = "Raw" -> 0
      [] channel = "User" -> 1
      [] channel = "Monitor" -> 2
      [] channel = "Control" -> 3
      [] channel = "Logging" -> 4

PermissionDenied == [kind |-> "PermissionDenied", code |-> 0]
Busy == [kind |-> "Busy", code |-> 0]
Other(e) == [kind |-> "Other", code |-> e]

handle_libc_errorSwapped(i, e) ==
    IF i < 0
    THEN Err(CASE e = 1 -> Busy
               [] e = 16 -> PermissionDenied
               [] OTHER -> Other(e))
    ELSE Ok(i)

\* e is the value nix::errno::errno() reads when i is negative
handle_libc_error(i, e) ==
    IF i < 0
    THEN Err(CASE e = 1 -> PermissionDenied
               [] e = 16 -> Busy
               [] OTHER -> Other(e))
    ELSE Ok(i)

filter_valueBigEndian(command, event, command_complete, command_status) ==
    LET type_mask == BitOr32(Shl1(command), Shl1(event))
        event_mask1 == BitOr32(Shl1(command_complete), Shl1(command_status))
        filter0 == [i \in 1..FILTER_LEN |-> 0]
        filter1 == copy_from_slice(filter0, 0, 4, to_bytes_be(type_mask))
    IN  copy_from_slice(filter1, 4, 8, to_bytes_be(event_mask1))

\* the bytes set_filter hands to setsockopt, for the given numeric tags
filter_value(command, event, command_complete, command_status) ==
    LET type_mask == BitOr32(Shl1(command), Shl1(event))
        event_mask1 == BitOr32(Shl1(command_complete), Shl1(command_status))
        filter0 == [i \in 1..FILTER_LEN |-> 0]
        filter1 == copy_from_slice(filter0, 0, 4, to_bytes_le(type_mask))
    IN  copy_from_slice(filter1, 4, 8, to_bytes_le(event_mask1))

set_filter_arg ==
    filter_value(PacketType_Command, PacketType_Event,
                 EventCode_CommandComplete, EventCode_CommandStatus)

set_filterSwallowed(r, e) == Ok(Unit)

\* what set_filter returns when its setsockopt returned r with errno e
set_filter(r, e) ==
    LET h == handle_libc_error(r, e)
    IN  IF h.tag = "Err" THEN Err(h.val) ELSE Ok(Unit)

SockaddrHCI(adapter_id, channel) ==
    [hci_family |-> AF_BLUETOOTH,
     hci_dev |-> adapter_id,
     hci_channel |-> HCIChannel_into_u16("User")]

(***************************************************************************)
(* Initial values of the three parts.                                      *)
(***************************************************************************)
NoFd == -1
NoThread == 0

MaxFd == 5
NumCallers == 2
MaxRet == 4
MaxErrno == 40
MaxBufLen == 4

Fds == 3..MaxFd
Threads == 1..NumCallers
AdapterIDs == {0, 1}
Errnos == {1, 16, 19}

PrimInit ==
    /\ op = "idle"
    /\ input = <<>>
    /\ output = <<>>

SockInit ==
    /\ spc = "idle"
    /\ sreq = [adapter_id |-> 0, channel |-> "User"]
    /\ sfd = NoFd
    /\ errno = 0
    /\ openFds = {}
    /\ boundAddr = [fd \in Fds |-> <<>>]
    /\ filters = [fd \in Fds |-> <<>>]
    /\ held = {}
    /\ streams = {}
    /\ sret = None
    /\ syslog = <<>>

MgrInit ==
    /\ lock = NoThread
    /\ poisoned = FALSE
    /\ mpc = [t \in Threads |-> "idle"]
    /\ mreq = [t \in Threads |-> [call |-> "none", adapter_id |-> 0]]
    /\ mret = [t \in Threads |-> None]
    /\ inIoctl = {}
    /\ devUp = [a \in AdapterIDs |-> FALSE]

Init == PrimInit /\ SockInit /\ MgrInit

(***************************************************************************)
(* SpecPrim: one call of one function.  input is the argument (a record    *)
(* when there are several), output the value returned.                     *)
(***************************************************************************)
RetVals == ((0 - MaxRet)..MaxRet) \cup {-2147483647, 2147483647}
ErrnoVals == 0..MaxErrno
TagVals == {0, 1, 2, 4, 7, 8, 14, 15, 16, 23, 24, 31}
BufBytes == {0, 255}
AddrLowBytes == {0, 64, 255}

RECURSIVE SeqsUpTo(_, _)
SeqsUpTo(S, n) ==
    IF n = 0 THEN {<<>>}
    ELSE LET shorter == SeqsUpTo(S, n - 1)
         IN  shorter \cup {Append(q, x) : q \in {r \in shorter : Len(r) = n - 1}, x \in S}

Bufs == SeqsUpTo(BufBytes, MaxBufLen)

Addresses ==
    {<<b[1], b[2], b[3], b[4], b[5], last>> :
        b \in [1..5 -> AddrLowBytes], last \in U8}

MaxOctets == 7
ValidOctets == {<<"0", "A">>, <<"f">>}
OddOctets == {<<>>, <<"G", "0">>, <<"1", "0", "0">>, <<"+", "1">>, <<"0", "F", "F">>,
              <<"+">>, <<"0", " ">>}
SeparatorStyles == {"colon", "hyphen", "mixed"}

SeparatorAt(style, i) ==
    CASE style = "colon" -> ":"
      [] style = "hyphen" -> "-"
      [] OTHER -> IF i % 2 = 1 THEN ":" ELSE "-"

\* the octets written one after the other, a separator between neighbours
RECURSIVE JoinOctets(_, _, _)
JoinOctets(octets, style, i) ==
    IF i > Len(octets) THEN <<>>
    ELSE (IF i = 1 THEN <<>> ELSE <<SeparatorAt(style, i)>>)
         \o octets[i] \o JoinOctets(octets, style, i + 1)

\* texts of 1..MaxOctets octets, all well formed but at most one
OctetLists ==
    UNION {
        LET plain == [1..n -> ValidOctets]
        IN  plain \cup {[p EXCEPT ![i] = odd] : p \in plain, i \in 1..n, odd \in OddOctets}
        : n \in 1..MaxOctets}

PackBytes == {0, 1, 128, 255}
PackAddresses == [1..BT_ADDRESS_LEN -> PackBytes]
U64Words == {0, 1, 65280, 65535}
U64s == [1..4 -> U64Words]
\* buffers of the address length, one shorter and one longer
PackBufs ==
    {[i \in 1..n |-> fill] :
        n \in (BT_ADDRESS_LEN - 1)..(BT_ADDRESS_LEN + 1), fill \in {0, 170}}

Durations ==
    {Duration_from_millis(ms) : ms \in U16 \cup {U16_MAX + 1, 100000}}
    \cup {[secs |-> 0, nanos |-> ms * 1000000 + 999999] : ms \in {19, 20, 999}}

Call(name, arg, result) ==
    /\ op' = name
    /\ input' = arg
    /\ output' = result
    /\ UNCHANGED <<mgrVars, sockVars>>

CallHandleLibcError ==
    /\ op = "idle"
    /\ \E i \in RetVals, e \in ErrnoVals :
            Call("handle_libc_error", [i |-> i, errno |-> e], handle_libc_error(i, e))

CallFilterValue ==
    /\ op = "idle"
    /\ \E c \in TagVals, ev \in TagVals, cc \in TagVals, cs \in TagVals :
            /\ c # ev
            /\ cc # cs
            /\ Call("filter_value",
                    [command |-> c, event |-> ev, command_complete |-> cc, command_status |-> cs],
                    filter_value(c, ev, cc, cs))

CallAdvertisingIntervalTryFrom ==
    /\ op = "idle"
    /\ \E v \in U16 :
            Call("AdvertisingInterval_try_from", v, AdvertisingInterval_try_from(v))

CallAdvertisingIntervalNew ==
    /\ op = "idle"
    /\ \E v \in U16 :
            Call("AdvertisingInterval_new", v, AdvertisingInterval_new(v))

CallRSSITryFromI8 ==
    /\ op = "idle"
    /\ \E v \in I8 : Call("RSSI_try_from_i8", v, RSSI_try_from_i8(v))


CallRSSITryFromU8 ==
    /\ op = "idle"
    /\ \E v \in U8 : Call("RSSI_try_from_u8", v, RSSI_try_from_u8(v))


CallMaybeRssi ==
    /\ op = "idle"
    /\ \E v \in I8 : Call("maybe_rssi", v, maybe_rssi(v))


CallChannelMapNew ==
    /\ op = "idle"
    /\ \E m \in U8 : Call("ChannelMap_new", m, ChannelMap_new(m))


CallChannelMapTryFrom ==
    /\ op = "idle"
    /\ \E m \in U8 : Call("ChannelMap_try_from", m, ChannelMap_try_from(m))


CallExpectLength ==
    /\ op = "idle"
    /\ \E expected \in 0..(MaxBufLen + 1), buf \in Bufs :
            Call("expect_length", [expected |-> expected, buf |-> buf],
                 expect_length(expected, buf))

CallAtleastLength ==
    /\ op = "idle"
    /\ \E expected \in 0..(MaxBufLen + 1), buf \in Bufs :
            Call("atleast_length", [expected |-> expected, buf |-> buf],
                 atleast_length(expected, buf))

CallFromStr ==
    /\ op = "idle"
    /\ \E octets \in OctetLists, style \in SeparatorStyles :
            LET text == JoinOctets(octets, style, 1)
            IN  Call("BTAddress_from_str", [text |-> text, octets |-> octets],
                     BTAddress_from_str(text))

CallAdvertisingIntervalIntoU16 ==
    /\ op = "idle"
    /\ \E v \in {AdvertisingInterval(x) : x \in MIN_U16..MAX_U16} : Call("AdvertisingInterval_into_u16", v, AdvertisingInterval_into_u16(v))

CallAdvertisingTypeIntoU8 ==
    /\ op = "idle"
    /\ \E v \in AdvertisingTypes : Call("AdvertisingType_into_u8", v, AdvertisingType_into_u8(v))

CallAdvertisingTypeTryFrom ==
    /\ op = "idle"
    /\ \E v \in U8 : Call("AdvertisingType_try_from", v, AdvertisingType_try_from(v))

CallPeerAddressTypeIntoU8 ==
    /\ op = "idle"
    /\ \E v \in PeerAddressTypes : Call("PeerAddressType_into_u8", v, PeerAddressType_into_u8(v))

CallPeerAddressTypeTryFrom ==
    /\ op = "idle"
    /\ \E v \in U8 : Call("PeerAddressType_try_from", v, PeerAddressType_try_from(v))

CallOwnAddressTypeIntoU8 ==
    /\ op = "idle"
    /\ \E v \in OwnAddressTypes : Call("OwnAddressType_into_u8", v, OwnAddressType_into_u8(v))

CallOwnAddressTypeTryFrom ==
    /\ op = "idle"
    /\ \E v \in U8 : Call("OwnAddressType_try_from", v, OwnAddressType_try_from(v))

CallFilterPolicyIntoU8 ==
    /\ op = "idle"
    /\ \E v \in FilterPolicies : Call("FilterPolicy_into_u8", v, FilterPolicy_into_u8(v))

CallFilterPolicyTryFrom ==
    /\ op = "idle"
    /\ \E v \in U8 : Call("FilterPolicy_try_from", v, FilterPolicy_try_from(v))

CallChannelMapIntoU8 ==
    /\ op = "idle"
    /\ \E v \in {ChannelMap(x) : x \in U8} : Call("ChannelMap_into_u8", v, ChannelMap_into_u8(v))

CallRSSIIntoU8 ==
    /\ op = "idle"
    /\ \E v \in {RSSI(x) : x \in MIN_RSSI_I8..MAX_RSSI_I8} : Call("RSSI_into_u8", v, RSSI_into_u8(v))

CallRSSIIntoI8 ==
    /\ op = "idle"
    /\ \E v \in {RSSI(x) : x \in MIN_RSSI_I8..MAX_RSSI_I8} : Call("RSSI_into_i8", v, RSSI_into_i8(v))

CallToU64 ==
    /\ op = "idle"
    /\ \E a \in PackAddresses : Call("BTAddress_to_u64", a, BTAddress_to_u64(a))

CallFromU64 ==
    /\ op = "idle"
    /\ \E u \in U64s : Call("BTAddress_from_u64", u, BTAddress_from_u64(u))

CallUnpackFrom ==
    /\ op = "idle"
    /\ \E bytes \in PackAddresses \cup PackBufs : Call("BTAddress_unpack_from", bytes, BTAddress_unpack_from(bytes))

CallPackInto ==
    /\ op = "idle"
    /\ \E a \in PackAddresses, bytes \in PackBufs :
            Call("BTAddress_pack_into", [a |-> a, bytes |-> bytes],
                 BTAddress_pack_into(a, bytes))

CallFromMilliseconds ==
    /\ op = "idle"
    /\ \E milli \in U16, checks \in BOOLEAN :
            Call("from_milliseconds", [milli |-> milli, overflow_checks |-> checks],
                 from_milliseconds(milli, checks))

CallTryFromDuration ==
    /\ op = "idle"
    /\ \E d \in Durations, checks \in BOOLEAN :
            Call("AdvertisingInterval_try_from_duration",
                 [value |-> d, overflow_checks |-> checks],
                 AdvertisingInterval_try_from_duration(d, checks))

CallAddressType ==
    /\ op = "idle"
    /\ \E a \in Addresses : Call("address_type", a, address_type(a))


CallPrivateAddressParts ==
    /\ op = "idle"
    /\ \E a \in Addresses : Call("private_address_parts", a, private_address_parts(a))


PrimNext ==
    \/ CallHandleLibcError
    \/ CallFilterValue
    \/ CallAdvertisingIntervalTryFrom
    \/ CallAdvertisingIntervalNew
    \/ CallRSSITryFromI8
    \/ CallRSSITryFromU8
    \/ CallMaybeRssi
    \/ CallChannelMapNew
    \/ CallChannelMapTryFrom
    \/ CallExpectLength
    \/ CallAtleastLength
    \/ CallFromStr
    \/ CallAdvertisingIntervalIntoU16
    \/ CallAdvertisingTypeIntoU8
    \/ CallAdvertisingTypeTryFrom
    \/ CallPeerAddressTypeIntoU8
    \/ CallPeerAddressTypeTryFrom
    \/ CallOwnAddressTypeIntoU8
    \/ CallOwnAddressTypeTryFrom
    \/ CallFilterPolicyIntoU8
    \/ CallFilterPolicyTryFrom
    \/ CallChannelMapIntoU8
    \/ CallRSSIIntoU8
    \/ CallRSSIIntoI8
    \/ CallToU64
    \/ CallFromU64
    \/ CallUnpackFrom
    \/ CallPackInto
    \/ CallFromMilliseconds
    \/ CallTryFromDuration
    \/ CallAddressType
    \/ CallPrivateAddressParts

SpecPrim == Init /\ [][PrimNext]_vars

(***************************************************************************)
(* SpecSocket: HCISocket::new_channel, one system call per step.  The      *)
(* kernel's answer to each call is drawn: a success value, or -1 with an   *)
(* errno.  syslog records the calls of the construction in progress.       *)
(***************************************************************************)
Outcome(r, e) == [r |-> r, e |-> e]
Failures == {Outcome(-1, e) : e \in Errnos}

FreeFds == Fds \ openFds
LowestFree == CHOOSE fd \in FreeFds : \A other \in FreeFds : fd <= other

\* close(fd): the descriptor and what the kernel attached to it go away
CloseIn(f, fd) == [f EXCEPT ![fd] = <<>>]

NewChannelCall(adapter_id, channel) ==
    /\ spc = "idle"
    /\ spc' = "socket"
    /\ sreq' = [adapter_id |-> adapter_id, channel |-> channel]
    /\ sfd' = NoFd
    /\ sret' = None
    /\ syslog' = <<>>
    /\ UNCHANGED <<errno, openFds, boundAddr, filters, held, streams>>
    /\ UNCHANGED <<primVars, mgrVars>>

\* libc::socket(AF_BLUETOOTH, SOCK_RAW | SOCK_CLOEXEC, HCI), handle_libc_error, ?
SysSocket(o) ==
    /\ spc = "socket"
    /\ o.r >= 0 => (FreeFds # {} /\ o.r = LowestFree)
    /\ LET e == IF o.r < 0 THEN o.e ELSE errno
           res == handle_libc_error(o.r, e)
       IN  /\ errno' = e
           /\ syslog' = Append(syslog,
                  [call |-> "socket", r |-> o.r, errno |-> e,
                   arg |-> <<AF_BLUETOOTH, BTProtocol_HCI>>])
           /\ IF res.tag = "Err"
              THEN /\ spc' = "idle"
                   /\ sret' = Err(res.val)
                   /\ UNCHANGED <<sfd, openFds>>
              ELSE /\ spc' = "bind"
                   /\ sfd' = res.val
                   /\ openFds' = openFds \cup {o.r}
                   /\ UNCHANGED sret
    /\ UNCHANGED <<sreq, boundAddr, filters, held, streams>>
    /\ UNCHANGED <<primVars, mgrVars>>

\* libc::bind(adapter_fd, &address, size_of::<SockaddrHCI>()), handle_libc_error, ?
\* On failure adapter_fd is still a plain integer: nothing closes it.
SysBind(o) ==
    /\ spc = "bind"
    /\ LET address == SockaddrHCI(sreq.adapter_id, sreq.channel)
           e == IF o.r < 0 THEN o.e ELSE errno
           res == handle_libc_error(o.r, e)
       IN  /\ errno' = e
           /\ syslog' = Append(syslog,
                  [call |-> "bind", r |-> o.r, errno |-> e, arg |-> <<sfd, address>>])
           /\ IF res.tag = "Err"
              THEN /\ spc' = "idle"
                   /\ sret' = Err(res.val)
                   /\ sfd' = NoFd
                   /\ UNCHANGED boundAddr
              ELSE /\ spc' = "set_filter"
                   /\ boundAddr' = [boundAddr EXCEPT ![sfd] = <<address>>]
                   /\ UNCHANGED <<sret, sfd>>
    /\ UNCHANGED <<sreq, openFds, filters, held, streams>>
    /\ UNCHANGED <<primVars, mgrVars>>

\* UnixStream::from_raw_fd, out.set_filter()?, Ok(out).  When set_filter fails,
\* out is dropped on the way out and its UnixStream closes the descriptor.
SysSetsockopt(o) ==
    /\ spc = "set_filter"
    /\ LET e == IF o.r < 0 THEN o.e ELSE errno
           res == set_filter(o.r, e)
       IN  /\ errno' = e
           /\ syslog' = Append(syslog,
                  [call |-> "setsockopt", r |-> o.r, errno |-> e,
                   arg |-> <<sfd, SOL_HCI, HCI_FILTER, set_filter_arg>>])
           /\ spc' = "idle"
           /\ sfd' = NoFd
           /\ IF res.tag = "Err"
              THEN /\ sret' = Err(res.val)
                   /\ openFds' = openFds \ {sfd}
                   /\ boundAddr' = CloseIn(boundAddr, sfd)
                   /\ filters' = CloseIn(filters, sfd)
                   /\ UNCHANGED held
              ELSE /\ sret' = Ok(sfd)
                   /\ held' = held \cup {sfd}
                   /\ filters' = IF o.r >= 0
                                 THEN [filters EXCEPT ![sfd] = set_filter_arg]
                                 ELSE filters
                   /\ UNCHANGED <<openFds, boundAddr>>
    /\ UNCHANGED <<sreq, streams>>
    /\ UNCHANGED <<primVars, mgrVars>>

\* the owner drops an HCISocket: its UnixStream closes the descriptor
DropSocket(fd) ==
    /\ spc = "idle"
    /\ fd \in held
    /\ held' = held \ {fd}
    /\ openFds' = openFds \ {fd}
    /\ boundAddr' = CloseIn(boundAddr, fd)
    /\ filters' = CloseIn(filters, fd)
    /\ UNCHANGED <<spc, sreq, sfd, errno, streams, sret, syslog>>
    /\ UNCHANGED <<primVars, mgrVars>>

\* UnixStream::from(socket): the HCISocket is consumed and its UnixStream handed
\* out; the descriptor stays open with its address and filter
UnixStream_from(fd) ==
    /\ spc = "idle"
    /\ fd \in held
    /\ held' = held \ {fd}
    /\ streams' = streams \cup {fd}
    /\ UNCHANGED <<spc, sreq, sfd, errno, openFds, boundAddr, filters, sret, syslog>>
    /\ UNCHANGED <<primVars, mgrVars>>

\* the owner drops a UnixStream taken out of an HCISocket: the descriptor is closed
DropUnixStream(fd) ==
    /\ spc = "idle"
    /\ fd \in streams
    /\ streams' = streams \ {fd}
    /\ openFds' = openFds \ {fd}
    /\ boundAddr' = CloseIn(boundAddr, fd)
    /\ filters' = CloseIn(filters, fd)
    /\ UNCHANGED <<spc, sreq, sfd, errno, held, sret, syslog>>
    /\ UNCHANGED <<primVars, mgrVars>>

SockNext ==
    \/ \E a \in AdapterIDs, ch \in HCIChannels : NewChannelCall(a, ch)
    \/ \E o \in Failures \cup {Outcome(fd, 0) : fd \in Fds} : SysSocket(o)
    \/ \E o \in Failures \cup {Outcome(0, 0)} : SysBind(o)
    \/ \E o \in Failures \cup {Outcome(0, 0)} : SysSetsockopt(o)
    \/ \E fd \in Fds : DropSocket(fd)
    \/ \E fd \in Fds : UnixStream_from(fd)
    \/ \E fd \in Fds : DropUnixStream(fd)

SpecSocket == Init /\ [][SockNext]_vars

(***************************************************************************)
(* SpecManager: Threads share one Manager and call device_up and           *)
(* device_down.  A call takes the lock, enters the ioctl, leaves it with   *)
(* the kernel's answer, and releases the lock as it returns.               *)
(***************************************************************************)
ManagerCalls == {"device_up", "device_down"}

LockAvailableUnchecked(holder) == TRUE

\* Mutex::lock returns only when no other guard is alive
LockAvailable(holder) == holder = NoThread

\* From<nix::Error> for HCISocketError, applied by ? to the ioctl's error
HCISocketError_from_errno(e) ==
    CASE e = 1 -> PermissionDenied
      [] e = 16 -> Busy
      [] OTHER -> Other(e)

ManagerCall(t, call, adapter_id) ==
    /\ mpc[t] = "idle"
    /\ mpc' = [mpc EXCEPT ![t] = "lock"]
    /\ mreq' = [mreq EXCEPT ![t] = [call |-> call, adapter_id |-> adapter_id]]
    /\ mret' = [mret EXCEPT ![t] = None]
    /\ UNCHANGED <<lock, poisoned, inIoctl, devUp>>
    /\ UNCHANGED <<primVars, sockVars>>

\* let control_lock = self.control_fd.lock().expect(..); let control_fd = *control_lock
\* On a poisoned mutex lock() is an Err, expect panics and the guard inside the
\* error is dropped again.
ManagerLock(t) ==
    /\ mpc[t] = "lock"
    /\ LockAvailable(lock)
    /\ IF poisoned
       THEN /\ mpc' = [mpc EXCEPT ![t] = "panicked"]
            /\ UNCHANGED lock
       ELSE /\ lock' = t
            /\ mpc' = [mpc EXCEPT ![t] = "locked"]
    /\ UNCHANGED <<poisoned, mreq, mret, inIoctl, devUp>>
    /\ UNCHANGED <<primVars, sockVars>>

\* ioctl::hci_device_up / hci_device_down is entered
IoctlEnter(t) ==
    /\ mpc[t] = "locked"
    /\ inIoctl' = inIoctl \cup {t}
    /\ mpc' = [mpc EXCEPT ![t] = "ioctl"]
    /\ UNCHANGED <<lock, poisoned, mreq, mret, devUp>>
    /\ UNCHANGED <<primVars, sockVars>>

\* the ioctl returns r (with errno e when negative); ? turns a failure into the
\* function's error, otherwise Ok(())
IoctlReturn(t, o) ==
    /\ mpc[t] = "ioctl"
    /\ inIoctl' = inIoctl \ {t}
    /\ mpc' = [mpc EXCEPT ![t] = "unlock"]
    /\ mret' = [mret EXCEPT ![t] =
                  IF o.r < 0 THEN Err(HCISocketError_from_errno(o.e)) ELSE Ok(Unit)]
    /\ devUp' = IF o.r < 0 THEN devUp
                ELSE [devUp EXCEPT ![mreq[t].adapter_id] = (mreq[t].call = "device_up")]
    /\ UNCHANGED <<lock, poisoned, mreq>>
    /\ UNCHANGED <<primVars, sockVars>>

PanickingAtDropOnError(ret) == ret.tag = "Err"

\* whether the thread is unwinding when control_lock is dropped: ? hands the ioctl's
\* error to the caller as a value, and nothing between lock() and the return panics
PanickingAtDrop(ret) == FALSE

\* the function returns: control_lock goes out of scope and the guard is dropped,
\* which unlocks the mutex, and poisons it when the thread is unwinding
ManagerReturn(t) ==
    /\ mpc[t] = "unlock"
    /\ lock' = NoThread
    /\ poisoned' = (poisoned \/ PanickingAtDrop(mret[t]))
    /\ mpc' = [mpc EXCEPT ![t] = IF PanickingAtDrop(mret[t]) THEN "panicked" ELSE "idle"]
    /\ mreq' = [mreq EXCEPT ![t] = [call |-> "none", adapter_id |-> 0]]
    /\ UNCHANGED <<mret, inIoctl, devUp>>
    /\ UNCHANGED <<primVars, sockVars>>

MgrNext ==
    \/ \E t \in Threads, call \in ManagerCalls, a \in AdapterIDs : ManagerCall(t, call, a)
    \/ \E t \in Threads : ManagerLock(t)
    \/ \E t \in Threads : IoctlEnter(t)
    \/ \E t \in Threads, o \in Failures \cup {Outcome(0, 0)} : IoctlReturn(t, o)
    \/ \E t \in Threads : ManagerReturn(t)

SpecManager == Init /\ [][MgrNext]_vars

\* A fair scheduler: a thread that can run its next step runs it, and the kernel
\* answers every ioctl.  Mutex::lock promises no order among the callers: one that
\* finds the lock taken each time it looks may be overtaken again and again, so the
\* lock step is only weakly fair.
ManagerFairness ==
    \A t \in Threads :
        /\ WF_vars(ManagerLock(t))
        /\ WF_vars(IoctlEnter(t))
        /\ WF_vars(\E o \in Failures \cup {Outcome(0, 0)} : IoctlReturn(t, o))
        /\ WF_vars(ManagerReturn(t))

SpecManagerFair == SpecManager /\ ManagerFairness

(***************************************************************************)
(* Properties of the Manager, under SpecManager.                           *)
(***************************************************************************)

\* C1: at most one caller is between the start and the return of its ioctl at any
\* instant, and every caller inside an ioctl holds the Manager's lock.
C1_OneIoctlInFlight ==
    /\ Cardinality(inIoctl) <= 1
    /\ \A t \in inIoctl : lock = t
    /\ \A t \in Threads : mpc[t] \in {"locked", "ioctl", "unlock"} => lock = t

C1_Witness ==
    \E t \in Threads, u \in Threads :
        /\ t # u
        /\ t \in inIoctl
        /\ mpc[u] = "lock"

\* C14: the lock is held only for the duration of a call's ioctl: a caller that has
\* returned, with Ok or with an error, or has not yet acquired it, does not hold it, the
\* mutex is never poisoned, and under a fair scheduler every call acquires the lock and
\* returns.
C14_LockReleasedAndCallsReturn ==
    /\ [](/\ ~poisoned
          /\ \A t \in Threads :
                /\ mpc[t] # "panicked"
                /\ mpc[t] \in {"idle", "lock"} => lock # t
          /\ lock # NoThread => mpc[lock] \in {"locked", "ioctl", "unlock"})
    /\ \A t \in Threads : (mpc[t] = "lock") ~> (mpc[t] = "idle" /\ mret[t].tag \in {"Ok", "Err"})

\* C14, as the code has it: the lock is released when a call returns, with Ok or with
\* an error, and is never poisoned; under a fair scheduler every call that has acquired
\* the lock returns, and while callers wait the lock is granted to one of them and
\* later released (no deadlock).  A single waiting caller may be overtaken for ever.
C14_LockReleasedNoDeadlock ==
    /\ [](/\ ~poisoned
          /\ \A t \in Threads :
                /\ mpc[t] # "panicked"
                /\ mpc[t] \in {"idle", "lock"} => lock # t
          /\ lock # NoThread => mpc[lock] \in {"locked", "ioctl", "unlock"})
    /\ \A t \in Threads :
          (mpc[t] = "locked") ~> (mpc[t] = "idle" /\ mret[t].tag \in {"Ok", "Err"})
    /\ (\E t \in Threads : mpc[t] = "lock" /\ lock = NoThread) ~> (lock # NoThread)
    /\ (lock # NoThread) ~> (lock = NoThread)

C14_Witness ==
    \E t \in Threads, u \in Threads :
        /\ t # u
        /\ mpc[t] = "idle"
        /\ mret[t].tag = "Err"
        /\ lock = u
        /\ mpc[u] = "ioctl"

(***************************************************************************)
(* Properties of new_channel, under SpecSocket.                            *)
(***************************************************************************)
CallNames == [i \in 1..Len(syslog) |-> syslog[i].call]

\* C2: new_channel returns Ok only after socket(), bind() and the filter setsockopt()
\* have all succeeded, in that order; a failure of any of the three is returned as
\* the error, and every HCISocket handed out has its filter installed.
C2_FilterBeforeHandOver ==
    /\ \A fd \in held :
        /\ fd \in openFds
        /\ boundAddr[fd] # <<>>
        /\ Len(filters[fd]) = 14
    /\ sret.tag = "Ok" =>
        /\ CallNames = <<"socket", "bind", "setsockopt">>
        /\ \A i \in 1..3 : syslog[i].r >= 0
    /\ \A i \in 1..Len(syslog) :
        /\ CallNames[i] = <<"socket", "bind", "setsockopt">>[i]
        /\ i < Len(syslog) => syslog[i].r >= 0
        /\ syslog[i].r < 0 =>
            /\ i = Len(syslog)
            /\ spc = "idle"
            /\ sret.tag = "Err"
            /\ sret.val = handle_libc_error(syslog[i].r, syslog[i].errno).val

C2_Witness ==
    /\ spc = "idle"
    /\ sret.tag = "Ok"
    /\ sret.val \in held
    /\ Len(syslog) = 3
    /\ filters[sret.val] # <<>>

\* C3: the address given to bind() carries hci_dev equal to the adapter index and
\* hci_channel equal to the numeric value of the channel selector passed in.
C3_BindAddress ==
    \A i \in 1..Len(syslog) :
        syslog[i].call = "bind" =>
            /\ syslog[i].arg[2].hci_dev = sreq.adapter_id
            /\ syslog[i].arg[2].hci_channel = HCIChannel_into_u16(sreq.channel)

\* C15: whenever new_channel returns an error after socket() succeeded, because
\* bind() failed or because the filter setsockopt() failed, the descriptor it opened
\* has been closed before it returns; and when it returns Ok the descriptor is open
\* and owned by exactly the returned HCISocket.
C15_NoDescriptorLeftBehind ==
    [][(spc # "idle" /\ spc' = "idle") =>
          IF sret'.tag = "Err"
          THEN sfd # NoFd => sfd \notin openFds'
          ELSE /\ sret'.val = sfd
               /\ sfd \in openFds'
               /\ sfd \in held'
               /\ sfd \notin held
               /\ sfd \notin streams']_vars

(***************************************************************************)
(* Properties of the pure functions, under SpecPrim.                       *)
(***************************************************************************)

\* C4: handle_libc_error(i) is Ok(i) for every i >= 0; for i < 0 it is an error:
\* PermissionDenied for errno 1, Busy for errno 16, Other(errno) for every other errno.
C4_HandleLibcError ==
    op = "handle_libc_error" =>
        LET i == input.i
            e == input.errno
        IN  /\ i >= 0 => output = [tag |-> "Ok", val |-> i]
            /\ i < 0 =>
                /\ output.tag = "Err"
                /\ e = 1 => output.val = [kind |-> "PermissionDenied", code |-> 0]
                /\ e = 16 => output.val = [kind |-> "Busy", code |-> 0]
                /\ e \notin {1, 16} => output.val = [kind |-> "Other", code |-> e]

C4_Witness ==
    /\ op = "handle_libc_error"
    /\ input.i < 0
    /\ input.errno = 16
    /\ output.tag = "Err"
    /\ output.val.kind = "Busy"

\* byte k (from 0) of the little-endian encoding of (1 << a) | (1 << b), a # b
LEByteOfMask(a, b, k) ==
    (IF a \div 8 = k THEN Pow2(a % 8) ELSE 0) + (IF b \div 8 = k THEN Pow2(b % 8) ELSE 0)

\* C5: the filter is 14 bytes: bytes 0..4 the little-endian (1 << Command) | (1 << Event),
\* bytes 4..8 the little-endian (1 << CommandComplete) | (1 << CommandStatus),
\* bytes 8..14 zero, for distinct tags below 32.
C5_FilterLayout ==
    op = "filter_value" =>
        /\ Len(output) = 14
        /\ \A k \in 0..3 :
            /\ output[k + 1] = LEByteOfMask(input.command, input.event, k)
            /\ output[k + 5] =
                   LEByteOfMask(input.command_complete, input.command_status, k)
        /\ \A i \in 9..14 : output[i] = 0

C5_Witness ==
    /\ op = "filter_value"
    /\ input = [command |-> 1, event |-> 4, command_complete |-> 14, command_status |-> 15]
    /\ output = <<18, 0, 0, 0, 0, 192, 0, 0, 0, 0, 0, 0, 0, 0>>

\* C6: AdvertisingInterval::try_from(v) succeeds exactly for 0x0020 <= v <= 0x4000 and
\* fails with ConversionError otherwise; on success the u16 conversion gives v back and
\* converting that again gives the same interval; new(v) panics exactly where try_from fails.
C6_AdvertisingIntervalRange ==
    /\ op = "AdvertisingInterval_try_from" =>
        /\ (output.tag = "Ok") <=> (32 <= input /\ input <= 16384)
        /\ output.tag # "Ok" => output = [tag |-> "Err", val |-> "ConversionError"]
        /\ output.tag = "Ok" =>
            /\ AdvertisingInterval_into_u16(output.val) = input
            /\ AdvertisingInterval_try_from(AdvertisingInterval_into_u16(output.val)) = output
    /\ op = "AdvertisingInterval_new" =>
        /\ (output.tag = "Panic") <=> (AdvertisingInterval_try_from(input).tag = "Err")
        /\ output.tag # "Panic" => output = AdvertisingInterval_try_from(input)

C6_Witness ==
    /\ op = "AdvertisingInterval_try_from"
    /\ input = 16384
    /\ output.tag = "Ok"
    /\ output.val.f0 = 16384

\* C7: RSSI::try_from(v: i8) succeeds exactly for -127 <= v <= 20, else ConversionError;
\* maybe_rssi(v) is Ok(Some(RSSI(v))) exactly for -127 <= v <= 20, Ok(None) exactly for
\* v = 127, Err(ConversionError) otherwise; the u8 conversion agrees with the i8
\* conversion of the two's-complement reinterpretation.
C7_RSSIRange ==
    /\ op = "RSSI_try_from_i8" =>
        /\ (output.tag = "Ok") <=> (-127 <= input /\ input <= 20)
        /\ output.tag = "Ok" => output.val = [f0 |-> input]
        /\ output.tag # "Ok" => output = [tag |-> "Err", val |-> "ConversionError"]
    /\ op = "maybe_rssi" =>
        /\ (-127 <= input /\ input <= 20) =>
               output = [tag |-> "Ok", val |-> [tag |-> "Some", val |-> [f0 |-> input]]]
        /\ input = 127 => output = [tag |-> "Ok", val |-> [tag |-> "None", val |-> <<>>]]
        /\ (input = -128 \/ (21 <= input /\ input <= 126)) =>
               output = [tag |-> "Err", val |-> "ConversionError"]
    /\ op = "RSSI_try_from_u8" =>
        LET signed == IF input >= 128 THEN input - 256 ELSE input
        IN  /\ output = RSSI_try_from_i8(signed)
            /\ (output.tag = "Ok") <=> (input <= 20 \/ input >= 129)

C7_Witness ==
    /\ op = "maybe_rssi"
    /\ input = 127
    /\ output.tag = "Ok"
    /\ output.val.tag = "None"

\* C8: ChannelMap::new(map) panics if map > 0x07 and returns a ChannelMap holding map
\* for every map in 0..=0x07, accepting exactly the values try_from accepts.
C8_ChannelMapNewStrict ==
    op = "ChannelMap_new" =>
        /\ (output.tag = "Panic") <=> (input > 7)
        /\ input <= 7 => output = [tag |-> "Ok", val |-> [f0 |-> input]]
        /\ (output.tag = "Ok") <=> (ChannelMap_try_from(input).tag = "Ok")

\* C9: atleast_length(expected, buf) is Ok(()) for every buffer with
\* buf.len() >= expected and Err(BadLength{expected, got: buf.len()}) exactly when
\* buf.len() < expected; expect_length is Ok(()) exactly when buf.len() == expected.
C9_LengthChecks ==
    /\ op = "atleast_length" =>
        /\ (output.tag = "Ok") <=> (Len(input.buf) >= input.expected)
        /\ Len(input.buf) < input.expected =>
               output = [tag |-> "Err",
                         val |-> [kind |-> "BadLength", expected |-> input.expected,
                                  got |-> Len(input.buf)]]
    /\ op = "expect_length" =>
        (output.tag = "Ok") <=> (Len(input.buf) = input.expected)

\* C10: address_type() depends only on the two most significant bits of the last byte:
\* 00 NonResolvablePrivate, 01 ResolvablePrivateAddress, 10 RFU, 11 StaticDevice;
\* private_address_parts() is Some((hash, prand)) exactly for 01, hash the little-endian
\* value of bytes 0..3, prand of bytes 3..6, both below 2^24, and None otherwise.
C10_AddressClassification ==
    /\ op = "address_type" =>
        LET top == input[6] \div 64
        IN  /\ top = 0 => output = "NonResolvablePrivate"
            /\ top = 1 => output = "ResolvablePrivateAddress"
            /\ top = 2 => output = "RFU"
            /\ top = 3 => output = "StaticDevice"
    /\ op = "private_address_parts" =>
        LET top == input[6] \div 64
        IN  /\ (output.tag = "Some") <=> (top = 1)
            /\ top # 1 => output = [tag |-> "None", val |-> <<>>]
            /\ top = 1 =>
                /\ output.val[1] = input[1] + 256 * input[2] + 65536 * input[3]
                /\ output.val[2] = input[4] + 256 * input[5] + 65536 * input[6]
                /\ output.val[1] < 16777216
                /\ output.val[2] < 16777216

C10_Witness ==
    /\ op = "private_address_parts"
    /\ input = <<255, 0, 64, 255, 255, 127>>
    /\ output.tag = "Some"
    /\ output.val = <<4194559, 8388607>>

HexChars ==
    {"0", "1", "2", "3", "4", "5", "6", "7", "8", "9",
     "a", "b", "c", "d", "e", "f", "A", "B", "C", "D", "E", "F"}

HexDigitRows ==
    <<{"0"}, {"1"}, {"2"}, {"3"}, {"4"}, {"5"}, {"6"}, {"7"}, {"8"}, {"9"},
      {"a", "A"}, {"b", "B"}, {"c", "C"}, {"d", "D"}, {"e", "E"}, {"f", "F"}>>

HexCharValue(c) == (CHOOSE k \in 1..16 : c \in HexDigitRows[k]) - 1

\* the number a string of hex digits writes, most significant digit first
RECURSIVE HexNumber(_)
HexNumber(o) ==
    IF o = <<>> THEN 0
    ELSE 16 * HexNumber(SubSeq(o, 1, Len(o) - 1)) + HexCharValue(o[Len(o)])

\* an octet of a textual address: hex digits only, writing a value that fits a byte
IsHexByte(o) ==
    /\ Len(o) >= 1
    /\ \A i \in 1..Len(o) : o[i] \in HexChars
    /\ HexNumber(o) <= 255

\* C11: parsing succeeds exactly when the text has exactly 6 octets and every octet
\* is a hex byte, and then yields the octets in textual order; every other text fails
\* with ConversionError, and nothing is written past the sixth byte.
C11_ParseSixHexOctets ==
    op = "BTAddress_from_str" =>
        LET octets == input.octets
            wellFormed == Len(octets) = 6 /\ \A i \in 1..6 : IsHexByte(octets[i])
        IN  /\ (output.tag = "Ok") <=> wellFormed
            /\ wellFormed => output.val = [i \in 1..6 |-> HexNumber(octets[i])]
            /\ ~wellFormed => output = [tag |-> "Err", val |-> "ConversionError"]

\* C12: decoding the encoding of a valid value gives the value back: the u8/u16
\* conversion followed by the fallible conversion for AdvertisingInterval,
\* AdvertisingType, PeerAddressType, OwnAddressType, FilterPolicy, ChannelMap and RSSI;
\* pack_into then unpack_from, and to_u64 then from_u64, for BTAddress; and pack_into
\* writes exactly 6 bytes.
C12_RoundTrip ==
    /\ op = "AdvertisingInterval_into_u16" =>
        AdvertisingInterval_try_from(output) = [tag |-> "Ok", val |-> input]
    /\ op = "AdvertisingType_into_u8" =>
        AdvertisingType_try_from(output) = [tag |-> "Ok", val |-> input]
    /\ op = "PeerAddressType_into_u8" =>
        PeerAddressType_try_from(output) = [tag |-> "Ok", val |-> input]
    /\ op = "OwnAddressType_into_u8" =>
        OwnAddressType_try_from(output) = [tag |-> "Ok", val |-> input]
    /\ op = "FilterPolicy_into_u8" =>
        FilterPolicy_try_from(output) = [tag |-> "Ok", val |-> input]
    /\ (op = "ChannelMap_into_u8" /\ input.f0 <= 7) =>
        ChannelMap_try_from(output) = [tag |-> "Ok", val |-> input]
    /\ op = "RSSI_into_u8" =>
        /\ output \in 0..255
        /\ RSSI_try_from_u8(output) = [tag |-> "Ok", val |-> input]
    /\ op = "RSSI_into_i8" =>
        RSSI_try_from_i8(output) = [tag |-> "Ok", val |-> input]
    /\ op = "BTAddress_to_u64" =>
        /\ output[4] = 0
        /\ BTAddress_from_u64(output) = input
    /\ op = "BTAddress_pack_into" =>
        /\ Len(input.bytes) = 6 =>
            /\ output.res = [tag |-> "Ok", val |-> <<>>]
            /\ Len(output.bytes) = 6
            /\ BTAddress_unpack_from(output.bytes) = [tag |-> "Ok", val |-> input.a]
        /\ Len(input.bytes) # 6 =>
            /\ output.res.tag = "Err"
            /\ output.bytes = input.bytes

C12_Witness ==
    /\ op = "BTAddress_to_u64"
    /\ input = <<1, 128, 0, 255, 128, 255>>
    /\ output = <<32769, 65280, 65408, 0>>

\* C13: for every byte the fallible conversion accepts exactly the documented values
\* (AdvertisingType 0..=4, PeerAddressType 0..=1, OwnAddressType and FilterPolicy 0..=3,
\* ChannelMap 0..=7), gives the variant with that code, and rejects every other byte
\* with ConversionError.
C13_EnumerationRange ==
    /\ op = "AdvertisingType_try_from" =>
        /\ (output.tag = "Ok") <=> (input <= 4)
        /\ output.tag = "Ok" => AdvertisingType_into_u8(output.val) = input
        /\ output.tag # "Ok" => output = [tag |-> "Err", val |-> "ConversionError"]
    /\ op = "PeerAddressType_try_from" =>
        /\ (output.tag = "Ok") <=> (input <= 1)
        /\ output.tag = "Ok" => PeerAddressType_into_u8(output.val) = input
        /\ output.tag # "Ok" => output = [tag |-> "Err", val |-> "ConversionError"]
    /\ op = "OwnAddressType_try_from" =>
        /\ (output.tag = "Ok") <=> (input <= 3)
        /\ output.tag = "Ok" => OwnAddressType_into_u8(output.val) = input
        /\ output.tag # "Ok" => output = [tag |-> "Err", val |-> "ConversionError"]
    /\ op = "FilterPolicy_try_from" =>
        /\ (output.tag = "Ok") <=> (input <= 3)
        /\ output.tag = "Ok" => FilterPolicy_into_u8(output.val) = input
        /\ output.tag # "Ok" => output = [tag |-> "Err", val |-> "ConversionError"]
    /\ op = "ChannelMap_try_from" =>
        /\ (output.tag = "Ok") <=> (input <= 7)
        /\ output.tag = "Ok" => output.val = [f0 |-> input]
        /\ output.tag # "Ok" => output = [tag |-> "Err", val |-> "ConversionError"]

C13_Witness ==
    /\ op = "OwnAddressType_try_from"
    /\ input = 4
    /\ output = [tag |-> "Err", val |-> "ConversionError"]

\* C16: from_milliseconds(m) is Some(floor(m * 16 / 10)) whenever that exact value lies
\* in [0x0020, 0x4000] and None otherwise, with no overflow or wrap of m * 16; and
\* TryFrom<Duration> gives the same result for a duration of m milliseconds.
C16_FromMillisecondsExact ==
    /\ op = "from_milliseconds" =>
        LET exact == (input.milli * 16) \div 10
        IN  IF 32 <= exact /\ exact <= 16384
            THEN output = [tag |-> "Some", val |-> [f0 |-> exact]]
            ELSE output = [tag |-> "None", val |-> <<>>]
    /\ (op = "AdvertisingInterval_try_from_duration"
          /\ input.value.secs * 1000 + input.value.nanos \div 1000000 <= 65535) =>
        LET m == input.value.secs * 1000 + input.value.nanos \div 1000000
            exact == (m * 16) \div 10
        IN  IF 32 <= exact /\ exact <= 16384
            THEN output = [tag |-> "Ok", val |-> [f0 |-> exact]]
            ELSE output = [tag |-> "Err", val |-> "ConversionError"]

====
